---- MODULE Spec2Model ----
(***************************************************************************)
(* Model of the SuperAgent Python SDK (sdk/python/superagent):             *)
(*   - exceptions.py : the error taxonomy and raise_for_status             *)
(*   - client.py     : SuperAgent._request, SuperAgent._handle_http_error  *)
(*                     and the streaming decoder                           *)
(*                     ChatCompletions._stream_completion                  *)
(*   - types.py      : the from_dict constructors of the records,          *)
(*                     ChatMessage.to_dict, EnsembleConfig.to_dict         *)
(* and of VerifierClient._request of the verifier SDK                      *)
(* (pkg/sdk/python/superagent_verifier/client.py).                         *)
(*                                                                         *)
(* Spec runs one call at a time, step by step; SpecPure calls the pure     *)
(* functions on bounded inputs; SpecCalls interleaves the steps of two     *)
(* callers that share one SuperAgent instance.                             *)
(*                                                                         *)
(* Python values are tagged records [t, v]; a dict is a function from its  *)
(* keys to values, a list is a sequence.  Text on the wire is a sequence   *)
(* of tokens (the literal "data:", a space, a carriage return, a newline,  *)
(* the literal "[DONE]", and JSON or non-JSON texts).                      *)
(***************************************************************************)
EXTENDS Integers, Sequences, FiniteSets, TLC

\* ------------------------------------------------------------------ bounds
\* Largest number of lines the response iterator hands out in one stream.
MaxLines == 3
\* The same, for each of the streams of two callers sharing an instance.
MaxCallLines == 2

\* ----------------------------------------------------------- Python values
JStr(s) == [t |-> "str", v |-> s]
JInt(n) == [t |-> "int", v |-> n]
JBool(b) == [t |-> "bool", v |-> b]
JNull == [t |-> "null", v |-> "None"]
JDict(f) == [t |-> "dict", v |-> f]
JList(s) == [t |-> "list", v |-> s]
\* The empty dict {} (a function with no keys).
EmptyDict == JDict(<<>>)
\* Marks an attribute an exception object does not have.
NoAttr == [t |-> "noattr", v |-> ""]
\* Marks the failure of json.loads (json.JSONDecodeError).
JSONDecodeError == [t |-> "JSONDecodeError", v |-> ""]

\* bool(x) for the values above.
Truthy(x) ==
    CASE x.t = "str" -> x.v # ""
      [] x.t = "int" -> x.v # 0
      [] x.t = "bool" -> x.v
      [] x.t = "null" -> FALSE
      [] x.t = "dict" -> DOMAIN x.v # {}
      [] x.t = "list" -> Len(x.v) # 0

\* str(x) for scalars and for the empty containers.
PyStr(x) ==
    CASE x.t = "str" -> x.v
      [] x.t = "int" -> ToString(x.v)
      [] x.t = "bool" -> IF x.v THEN "True" ELSE "False"
      [] x.t = "null" -> "None"
      [] x.t = "dict" /\ DOMAIN x.v = {} -> "{}"
      [] x.t = "list" /\ Len(x.v) = 0 -> "[]"

\* d.get(k, default) on a dict d.
Get(d, k, default) == IF k \in DOMAIN d.v THEN d.v[k] ELSE default

\* d[k] = v on a dict's key-value function.
Put(d, k, v) == [x \in DOMAIN d \cup {k} |-> IF x = k THEN v ELSE d[x]]

\* d.update(e)
Update(d, e) ==
    [x \in DOMAIN d \cup DOMAIN e |-> IF x \in DOMAIN e THEN e[x] ELSE d[x]]

\* A float, by its decimal text.
JFloat(s) == [t |-> "float", v |-> s]

\* ------------------------------------------------- exceptions.py: taxonomy
SDKKinds == {"AuthenticationError", "RateLimitError", "APIError",
             "ConnectionError", "ValidationError", "TimeoutError"}

NoExc == [kind |-> "none", message |-> JNull, status_code |-> NoAttr,
          response |-> NoAttr, retry_after |-> NoAttr]

\* SuperAgentError.__init__ for the subclass named kind.
SuperAgentError(kind, message, status_code, response) ==
    [kind |-> kind, message |-> message, status_code |-> status_code,
     response |-> response, retry_after |-> NoAttr]

\* Faulty variant of RateLimitError: the retry_after argument is not kept.
RateLimitError_drops_retry_after(message, status_code, response, retry_after) ==
    [kind |-> "RateLimitError", message |-> message,
     status_code |-> status_code, response |-> response,
     retry_after |-> JNull]

\* RateLimitError.__init__: the base fields plus retry_after.
RateLimitError(message, status_code, response, retry_after) ==
    [kind |-> "RateLimitError", message |-> message,
     status_code |-> status_code, response |-> response,
     retry_after |-> retry_after]

\* SuperAgentError.__str__, inherited by every class of the taxonomy.
SuperAgentError_str(self) ==
    IF Truthy(self.status_code)
    THEN JStr("[" \o PyStr(self.status_code) \o "] " \o PyStr(self.message))
    ELSE self.message

\* An exception that is not part of the SDK's taxonomy (AttributeError,
\* socket.timeout, ConnectionResetError, json.JSONDecodeError).
RawException(kind) ==
    [kind |-> kind, message |-> JNull, status_code |-> NoAttr,
     response |-> NoAttr, retry_after |-> NoAttr]

\* How a call ends: it returns a value or raises an exception.
Pending == [tag |-> "pending", value |-> JNull, exc |-> NoExc]
Return(v) == [tag |-> "return", value |-> v, exc |-> NoExc]
Raise(e) == [tag |-> "raise", value |-> JNull, exc |-> e]

\* Faulty variant of extract_message: the falsy test on a non-dict error is dropped.
extract_message_always_str(response_data) ==
    LET error_message == Get(response_data, "error", EmptyDict)
    IN  IF error_message.t = "dict"
        THEN Get(error_message, "message", JStr("Unknown error"))
        ELSE JStr(PyStr(error_message))

\* raise_for_status, message extraction (exceptions.py lines 68-72).
extract_message(response_data) ==
    LET error_message == Get(response_data, "error", EmptyDict)
    IN  IF error_message.t = "dict"
        THEN Get(error_message, "message", JStr("Unknown error"))
        ELSE IF Truthy(error_message)
             THEN JStr(PyStr(error_message))
             ELSE JStr("Unknown error")

\* Faulty variant of raise_for_status: the 4xx range is tested before 401 and 429.
raise_for_status_range_first(status_code, response_data) ==
    IF response_data.t # "dict"
    THEN Raise(RawException("AttributeError"))
    ELSE LET message == extract_message(response_data)
         IN  IF 400 <= status_code /\ status_code < 500
             THEN Raise(SuperAgentError("ValidationError", message,
                                        JInt(status_code), response_data))
             ELSE IF status_code >= 500
             THEN Raise(SuperAgentError("APIError", message,
                                        JInt(status_code), response_data))
             ELSE Return(JNull)

\* raise_for_status(status_code, response_data).  Calling .get on a value
\* that is not a dict raises AttributeError; a status below 400 matches no
\* branch and the function returns None.
raise_for_status(status_code, response_data) ==
    IF response_data.t # "dict"
    THEN Raise(RawException("AttributeError"))
    ELSE LET message == extract_message(response_data)
         IN  IF status_code = 401
             THEN Raise(SuperAgentError("AuthenticationError", message,
                                        JInt(status_code), response_data))
             ELSE IF status_code = 429
             THEN Raise(RateLimitError(message, JInt(status_code),
                                       response_data,
                                       Get(response_data, "retry_after", JNull)))
             ELSE IF 400 <= status_code /\ status_code < 500
             THEN Raise(SuperAgentError("ValidationError", message,
                                        JInt(status_code), response_data))
             ELSE IF status_code >= 500
             THEN Raise(SuperAgentError("APIError", message,
                                        JInt(status_code), response_data))
             ELSE Return(JNull)

\* --------------------------------------------------------- text on the wire
SP == " "
CR == "\r"
NL == "\n"
DATA == "data:"
DONE == "[DONE]"
\* Texts that carry, or fail to carry, JSON.
J1 == "{\"id\":\"1\"}"
J2 == "{\"id\":\"2\",\"choices\":[{\"delta\":{\"content\":\"hi\"}}]}"
JBad == "{bad"
JArr == "[]"
JEmpty == "{}"
BTok == "{\"error\":{\"message\":\"bad token\"}}"
BBoom == "{\"error\":\"boom\"}"
BSlow == "{\"error\":{\"message\":\"slow down\"},\"retry_after\":30}"
BZero == "{\"error\":0}"
BBlank == "{\"error\":\"\"}"
BNoMsg == "{\"error\":{\"code\":7}}"
BHtml == "<html>Bad Gateway</html>"
BNone == ""

IsSpace(c) == c \in {SP, CR, NL}

\* json.loads of one text: its value, or JSONDecodeError.
json_loads_text(text) ==
    CASE text = J1 -> JDict([id |-> JStr("1")])
      [] text = J2 ->
           JDict([id |-> JStr("2"),
                  choices |-> JList(<<JDict([delta |->
                                  JDict([content |-> JStr("hi")])])>>)])
      [] text = JArr -> JList(<<>>)
      [] text = JEmpty -> EmptyDict
      [] text = BTok -> JDict([error |-> JDict([message |-> JStr("bad token")])])
      [] text = BBoom -> JDict([error |-> JStr("boom")])
      [] text = BSlow ->
           JDict([error |-> JDict([message |-> JStr("slow down")]),
                  retry_after |-> JInt(30)])
      [] text = BZero -> JDict([error |-> JInt(0)])
      [] text = BBlank -> JDict([error |-> JStr("")])
      [] text = BNoMsg -> JDict([error |-> JDict([code |-> JInt(7)])])
      [] OTHER -> JSONDecodeError

RECURSIVE LStrip(_)
LStrip(s) == IF s # <<>> /\ IsSpace(Head(s)) THEN LStrip(Tail(s)) ELSE s

RECURSIVE RStrip(_)
RStrip(s) ==
    IF s # <<>> /\ IsSpace(s[Len(s)]) THEN RStrip(SubSeq(s, 1, Len(s) - 1))
    ELSE s

\* str.strip()
Strip(s) == RStrip(LStrip(s))

\* json.loads of a token sequence: whitespace around the one JSON text is
\* allowed, anything else next to it is not.
json_loads(data) ==
    LET s == Strip(data)
    IN  IF Len(s) = 1 THEN json_loads_text(s[1]) ELSE JSONDecodeError

\* "\n" in buffer
HasNewline(buffer) == \E i \in 1..Len(buffer) : buffer[i] = NL

\* Position of the first newline of a buffer that has one.
FirstNewline(buffer) ==
    CHOOSE i \in 1..Len(buffer) :
        buffer[i] = NL /\ \A j \in 1..(i - 1) : buffer[j] # NL

\* buffer.split("\n", 1): the text before the first newline, and the rest.
SplitLine(buffer) ==
    [line |-> SubSeq(buffer, 1, FirstNewline(buffer) - 1),
     rest |-> SubSeq(buffer, FirstNewline(buffer) + 1, Len(buffer))]

\* line.startswith("data: ")
StartsWithData(line) == Len(line) >= 2 /\ line[1] = DATA /\ line[2] = SP

\* line[6:]
Payload(line) == SubSeq(line, 3, Len(line))

\* ------------------------------------------------------- types.py: records
AttributeError == [t |-> "AttributeError", v |-> ""]

\* StreamDelta.from_dict
StreamDelta_from_dict(data) ==
    IF data.t # "dict" THEN AttributeError
    ELSE [t |-> "StreamDelta",
          v |-> [role |-> Get(data, "role", JNull),
                 content |-> Get(data, "content", JNull)]]

\* StreamChoice.from_dict
StreamChoice_from_dict(data) ==
    IF data.t # "dict" THEN AttributeError
    ELSE LET delta == StreamDelta_from_dict(Get(data, "delta", EmptyDict))
         IN  IF delta = AttributeError THEN AttributeError
             ELSE [t |-> "StreamChoice",
                   v |-> [index |-> Get(data, "index", JInt(0)),
                          delta |-> delta,
                          finish_reason |-> Get(data, "finish_reason", JNull)]]

\* ChatCompletionChunk.from_dict: the chunk record, or AttributeError when
\* the payload, one of its choices or a delta is not a dict.
ChatCompletionChunk_from_dict(data) ==
    IF data.t # "dict" THEN AttributeError
    ELSE LET cs == Get(data, "choices", JList(<<>>))
             choices == [i \in 1..Len(cs.v) |-> StreamChoice_from_dict(cs.v[i])]
         IN  IF \E i \in 1..Len(cs.v) : choices[i] = AttributeError
             THEN AttributeError
             ELSE [t |-> "ChatCompletionChunk",
                   v |-> [id |-> Get(data, "id", JStr("")),
                          object |-> Get(data, "object",
                                         JStr("chat.completion.chunk")),
                          created |-> Get(data, "created", JInt(0)),
                          model |-> Get(data, "model", JStr("")),
                          choices |-> choices]]

\* A record of class cls with the given fields.
Obj(cls, fields) == [t |-> cls, v |-> fields]

\* Faulty variant of ChatMessage_to_dict: name and tool_calls are tested
\* against None.
ChatMessage_to_dict_is_not_none(self) ==
    LET d0 == ("role" :> self.v.role) @@ ("content" :> self.v.content)
        d1 == IF self.v.name # JNull THEN Put(d0, "name", self.v.name) ELSE d0
    IN  JDict(IF self.v.tool_calls # JNull
              THEN Put(d1, "tool_calls", self.v.tool_calls) ELSE d1)

\* ChatMessage.to_dict: name and tool_calls are added when they are truthy.
ChatMessage_to_dict(self) ==
    LET d0 == ("role" :> self.v.role) @@ ("content" :> self.v.content)
        d1 == IF Truthy(self.v.name) THEN Put(d0, "name", self.v.name) ELSE d0
    IN  JDict(IF Truthy(self.v.tool_calls)
              THEN Put(d1, "tool_calls", self.v.tool_calls) ELSE d1)

\* ChatMessage.from_dict
ChatMessage_from_dict(data) ==
    IF data.t # "dict" THEN AttributeError
    ELSE Obj("ChatMessage",
             [role |-> Get(data, "role", JStr("")),
              content |-> Get(data, "content", JStr("")),
              name |-> Get(data, "name", JNull),
              tool_calls |-> Get(data, "tool_calls", JNull)])

\* Usage.from_dict
Usage_from_dict(data) ==
    IF data.t # "dict" THEN AttributeError
    ELSE Obj("Usage",
             [prompt_tokens |-> Get(data, "prompt_tokens", JInt(0)),
              completion_tokens |-> Get(data, "completion_tokens", JInt(0)),
              total_tokens |-> Get(data, "total_tokens", JInt(0))])

\* ChatCompletionChoice.from_dict
ChatCompletionChoice_from_dict(data) ==
    IF data.t # "dict" THEN AttributeError
    ELSE LET message == ChatMessage_from_dict(Get(data, "message", EmptyDict))
         IN  IF message = AttributeError THEN AttributeError
             ELSE Obj("ChatCompletionChoice",
                      [index |-> Get(data, "index", JInt(0)),
                       message |-> message,
                       finish_reason |-> Get(data, "finish_reason", JNull)])

\* ChatCompletionResponse.from_dict: usage is built only when the payload's
\* usage is truthy, and is None otherwise.
ChatCompletionResponse_from_dict(data) ==
    IF data.t # "dict" THEN AttributeError
    ELSE LET cs == Get(data, "choices", JList(<<>>))
             choices == [i \in 1..Len(cs.v) |->
                            ChatCompletionChoice_from_dict(cs.v[i])]
             usage == IF Truthy(Get(data, "usage", JNull))
                      THEN Usage_from_dict(data.v["usage"])
                      ELSE JNull
         IN  IF \/ \E i \in 1..Len(cs.v) : choices[i] = AttributeError
                \/ usage = AttributeError
             THEN AttributeError
             ELSE Obj("ChatCompletionResponse",
                      [id |-> Get(data, "id", JStr("")),
                       object |-> Get(data, "object", JStr("chat.completion")),
                       created |-> Get(data, "created", JInt(0)),
                       model |-> Get(data, "model", JStr("")),
                       choices |-> choices,
                       usage |-> usage])

\* Model.from_dict
Model_from_dict(data) ==
    IF data.t # "dict" THEN AttributeError
    ELSE Obj("Model",
             [id |-> Get(data, "id", JStr("")),
              object |-> Get(data, "object", JStr("model")),
              created |-> Get(data, "created", JInt(0)),
              owned_by |-> Get(data, "owned_by", JStr(""))])

\* EnsembleConfig() with the defaults of its fields.
DefaultEnsembleConfig ==
    Obj("EnsembleConfig",
        [strategy |-> JStr("confidence_weighted"),
         min_providers |-> JInt(2),
         confidence_threshold |-> JFloat("0.8"),
         fallback_to_best |-> JBool(TRUE),
         timeout |-> JInt(30),
         preferred_providers |-> JList(<<>>)])

\* EnsembleConfig.to_dict: every field, always.
EnsembleConfig_to_dict(self) == JDict(self.v)

\* ------------------------------------------------ the transport (urllib)
\* What urlopen, the response iterator and response.read() can do.  An
\* exception of the transport is a record; kind "ok" means no exception.
TExc(kind, code, reason, body) ==
    [kind |-> kind, code |-> code, reason |-> reason, body |-> body]
OkT == TExc("ok", 0, "", "")
NoT == TExc("none", 0, "", "")
EofT == TExc("eof", 0, "", "")

\* Statuses urlopen reports as HTTPError (it follows 301/302/303/307/308
\* itself and raises for every other status outside 200..299).
ErrorStatuses == {304, 400, 401, 404, 429, 500, 503}

\* The reason phrase of a status.
Reason(code) ==
    CASE code = 304 -> "Not Modified"
      [] code = 400 -> "Bad Request"
      [] code = 401 -> "Unauthorized"
      [] code = 404 -> "Not Found"
      [] code = 429 -> "Too Many Requests"
      [] code = 500 -> "Internal Server Error"
      [] code = 503 -> "Service Unavailable"

\* Bodies of error responses and of 2xx responses.
ErrorBodies == {BTok, BBoom, BSlow, BZero, BBlank, BNoMsg, BHtml, BNone,
                JArr, JEmpty}
SuccessBodies == {BNone, JEmpty, J1, JArr, BHtml}

\* urlopen fails: HTTPError for a status outside 2xx; URLError when the
\* connection cannot be made (refused, or the connect timed out);
\* socket.timeout when the timeout elapses while waiting for the response
\* headers (raised as it is, not wrapped in URLError).
OpenFailures ==
    {TExc("HTTPError", c, Reason(c), b) : c \in ErrorStatuses, b \in ErrorBodies}
    \cup {TExc("URLError", 0, "Connection refused", ""),
          TExc("URLError", 0, "timed out", ""),
          TExc("socket.timeout", 0, "timed out", "")}

\* Reading the body of an open response fails: the timeout elapses or the
\* connection drops.  Neither is a URLError.
ReadFailures ==
    {TExc("socket.timeout", 0, "timed out", ""),
     TExc("ConnectionResetError", 0, "Connection reset by peer", "")}

\* The transport failures that are timeouts.
IsTimeout(e) == e.reason = "timed out"

\* ------------------------------------------- client.py: SuperAgent methods
\* _handle_http_error, lines 289-292: the decoded error body, or
\* {"error": reason} when the body is not JSON.
error_response_data(error) ==
    LET parsed == json_loads_text(error.body)
    IN  IF parsed = JSONDecodeError
        THEN JDict([error |-> JStr(error.reason)])
        ELSE parsed

\* SuperAgent._handle_http_error(error)
handle_http_error(error) ==
    raise_for_status(error.code, error_response_data(error))

\* The except clauses of SuperAgent._request (lines 282-285) applied to an
\* exception e raised inside the try block.  When _handle_http_error
\* returns, _request falls off its end and returns None.
request_except(e) ==
    IF e.kind = "HTTPError"
    THEN LET r == handle_http_error(e)
         IN  IF r.tag = "raise" THEN r ELSE Return(JNull)
    ELSE IF e.kind = "URLError"
    THEN Raise(SuperAgentError("ConnectionError",
                               JStr("Failed to connect to url: " \o e.reason),
                               JNull, JNull))
    ELSE Raise(RawException(e.kind))

\* Faulty variant of request: the body is decoded even when it is empty.
request_always_decodes(open, read, body) ==
    IF open.kind # "ok" THEN request_except(open)
    ELSE IF read.kind # "ok" THEN request_except(read)
    ELSE LET v == json_loads_text(body)
         IN  IF v = JSONDecodeError
             THEN request_except(TExc("JSONDecodeError", 0, "", ""))
             ELSE Return(v)

\* SuperAgent._request: urlopen gives open, response.read() gives read and
\* the body text.
request(open, read, body) ==
    IF open.kind # "ok" THEN request_except(open)
    ELSE IF read.kind # "ok" THEN request_except(read)
    ELSE IF body = "" THEN Return(EmptyDict)
    ELSE LET v == json_loads_text(body)
         IN  IF v = JSONDecodeError
             THEN request_except(TExc("JSONDecodeError", 0, "", ""))
             ELSE Return(v)

\* ------------------------- client.py: ChatCompletions._stream_completion
\* The except clauses of _stream_completion (lines 148-151).  When
\* _handle_http_error returns, the generator falls off its end.
stream_except(e) ==
    IF e.kind = "HTTPError"
    THEN LET r == handle_http_error(e)
         IN  IF r.tag = "raise" THEN r ELSE Return(JNull)
    ELSE IF e.kind = "URLError"
    THEN Raise(SuperAgentError("ConnectionError",
                               JStr("Failed to connect: " \o e.reason),
                               JNull, JNull))
    ELSE Raise(RawException(e.kind))

\* What one pass of the while loop does with a line.
Skip == [kind |-> "continue", chunk |-> JNull]
Stop == [kind |-> "return", chunk |-> JNull]
Yield(c) == [kind |-> "yield", chunk |-> c]
Throw == [kind |-> "raise", chunk |-> JNull]

\* Faulty variant of decode_line: [DONE] is skipped like any other line.
decode_line_done_ignored(raw) ==
    LET line == Strip(raw)
    IN  IF line = <<>> THEN Skip
        ELSE IF StartsWithData(line)
        THEN LET v == json_loads(Payload(line))
             IN  IF v = JSONDecodeError THEN Skip
                 ELSE IF ChatCompletionChunk_from_dict(v) = AttributeError
                 THEN Throw
                 ELSE Yield(ChatCompletionChunk_from_dict(v))
        ELSE Skip

\* Faulty variant of decode_line: a frame that is not JSON ends the stream.
decode_line_bad_frame_stops(raw) ==
    LET line == Strip(raw)
    IN  IF line = <<>> THEN Skip
        ELSE IF StartsWithData(line)
        THEN IF Payload(line) = <<DONE>> THEN Stop
             ELSE LET v == json_loads(Payload(line))
                  IN  IF v = JSONDecodeError THEN Stop
                      ELSE IF ChatCompletionChunk_from_dict(v) = AttributeError
                      THEN Throw
                      ELSE Yield(ChatCompletionChunk_from_dict(v))
        ELSE Skip

\* Lines 134-146: the body of the while loop for the line split off the
\* buffer.  AttributeError from from_dict is not a JSONDecodeError, so the
\* inner try does not catch it.
decode_line(raw) ==
    LET line == Strip(raw)
    IN  IF line = <<>> THEN Skip
        ELSE IF StartsWithData(line)
        THEN IF Payload(line) = <<DONE>> THEN Stop
             ELSE LET v == json_loads(Payload(line))
                  IN  IF v = JSONDecodeError THEN Skip
                      ELSE IF ChatCompletionChunk_from_dict(v) = AttributeError
                      THEN Throw
                      ELSE Yield(ChatCompletionChunk_from_dict(v))
        ELSE Skip

\* Lines the response iterator can hand out: each is the text up to and
\* including the next newline, or the unterminated rest at end of stream.
COMMENT == ": keep-alive"
Lines ==
    {<<DATA, SP, J1, NL>>,
     <<DATA, SP, J2, CR, NL>>,
     <<DATA, SP, JBad, NL>>,
     <<DATA, SP, DONE, NL>>,
     <<NL>>,
     <<COMMENT, NL>>,
     <<SP, DATA, SP, J1, NL>>,
     <<DATA, J1, NL>>,
     <<DATA, SP, JArr, NL>>,
     <<DATA, SP, J1>>}

Terminated(l) == l # <<>> /\ l[Len(l)] = NL

\* Statuses and payloads for direct calls of raise_for_status.
StatusCodes == {200, 304, 400, 401, 404, 429, 499, 500, 503}
Payloads ==
    {json_loads_text(b) : b \in {BTok, BBoom, BSlow, BZero, BBlank, BNoMsg,
                                 JEmpty}}
    \cup {JDict([error |-> JNull]), JDict([error |-> JBool(FALSE)]),
          JDict([error |-> JInt(5)]),
          JDict([error |-> JDict([message |-> JNull])]),
          JDict([error |-> JDict([message |-> JStr("slow down"),
                                  retry_after |-> JInt(5)])]),
          JDict([retry_after |-> JInt(0)])}

\* --------------------------- client.py: ChatCompletions.create, the payload
\* create, lines 79-84: ChatMessage objects are converted, dicts are kept.
format_messages(messages) ==
    [i \in 1..Len(messages) |->
        IF messages[i].t = "ChatMessage" THEN ChatMessage_to_dict(messages[i])
        ELSE messages[i]]

\* create, lines 86-102: the payload sent for the arguments a (a record of
\* create's parameters, kwargs being a dict).
create_payload(a) ==
    LET p0 == ("model" :> a.model)
              @@ ("messages" :> JList(format_messages(a.messages)))
              @@ ("temperature" :> a.temperature)
              @@ ("top_p" :> a.top_p)
              @@ ("stream" :> JBool(a.stream))
        p1 == IF a.max_tokens # JNull
              THEN Put(p0, "max_tokens", a.max_tokens) ELSE p0
        p2 == IF a.stop # JNull THEN Put(p1, "stop", a.stop) ELSE p1
        p3 == IF a.ensemble_config # JNull
              THEN Put(p2, "ensemble_config",
                       EnsembleConfig_to_dict(a.ensemble_config))
              ELSE p2
    IN  JDict(Update(p3, a.kwargs))

\* ----------------------------------------- client.py: SuperAgent, headers
\* base_url.rstrip("/") for the base URLs used here.
RStripSlash(url) ==
    CASE url = "http://localhost:8080/" -> "http://localhost:8080"
      [] url = "http://localhost:8080//" -> "http://localhost:8080"
      [] OTHER -> url

\* SuperAgent.__init__: the key falls back to the environment variable
\* SUPERAGENT_API_KEY, default_headers to {}.
SuperAgent_init(api_key, env_key, base_url, timeout, default_headers) ==
    [api_key |-> IF Truthy(api_key) THEN api_key ELSE env_key,
     base_url |-> RStripSlash(base_url),
     timeout |-> timeout,
     default_headers |-> IF Truthy(default_headers) THEN default_headers
                         ELSE EmptyDict]

\* SuperAgent._get_headers: a new dict on every call.
get_headers(self) ==
    LET headers == Update(("Content-Type" :> "application/json")
                          @@ ("User-Agent" :> "superagent-python/0.1.0"),
                          self.default_headers.v)
    IN  IF Truthy(self.api_key)
        THEN Put(headers, "Authorization", "Bearer " \o self.api_key.v)
        ELSE headers

\* SuperAgent() with its default arguments and no environment variable.
DefaultClient ==
    SuperAgent_init(JNull, JNull, "http://localhost:8080", 60, JNull)

\* ------------------ superagent_verifier/client.py: VerifierClient._request
\* An exception of the verifier SDK as the raise sites build it: the
\* message, and the status_code and response keywords where they are given.
VerifierError(kind, message, status_code, response) ==
    [kind |-> kind, message |-> message, status_code |-> status_code,
     response |-> response, retry_after |-> NoAttr]

\* What session.request can raise instead of giving a response.
RequestsFailures ==
    {TExc("requests.Timeout", 0, "timed out", ""),
     TExc("requests.ConnectionError", 0, "Connection refused", "")}

\* Statuses and bodies of the responses session.request gives (it raises
\* for no status).
VerifierStatuses == {200, 204, 304, 400, 401, 404, 500}
VerifierBodies == {BNone, JEmpty, J1, BBoom, BTok, BHtml, JArr}

\* response.json(): the decoded body; it raises for an empty body and for
\* a body that is not JSON.
response_json(body) == json_loads_text(body)

\* response.json().get("error", default) as the message of an exception
\* of the given kind; json() or .get may raise instead.
verifier_error_from_body(kind, body, default, status_code, with_response) ==
    LET data == response_json(body)
    IN  IF data = JSONDecodeError THEN Raise(RawException("JSONDecodeError"))
        ELSE IF data.t # "dict" THEN Raise(RawException("AttributeError"))
        ELSE Raise(VerifierError(kind, Get(data, "error", JStr(default)),
                                 status_code,
                                 IF with_response /\ body # "" THEN data
                                 ELSE JNull))

\* VerifierClient._request: sent is what session.request did, status and
\* body are those of the response.
verifier_request(sent, status, body, path) ==
    IF sent.kind = "requests.Timeout"
    THEN Raise(VerifierError("APIError", JStr("Request timed out"),
                             JInt(408), JNull))
    ELSE IF sent.kind # "ok"
    THEN Raise(VerifierError("APIError",
                             JStr("Request failed: " \o sent.reason),
                             JNull, JNull))
    ELSE IF status = 401
    THEN Raise(VerifierError("AuthenticationError",
                             JStr("Authentication failed"), JNull, JNull))
    ELSE IF status = 404
    THEN Raise(VerifierError("NotFoundError",
                             JStr("Resource not found: " \o path),
                             JNull, JNull))
    ELSE IF status = 400
    THEN verifier_error_from_body("ValidationError", body,
                                  "Validation error", JNull, FALSE)
    ELSE IF status >= 400
    THEN verifier_error_from_body("APIError", body, "API error",
                                  JInt(status), TRUE)
    ELSE LET data == response_json(body)
         IN  IF data = JSONDecodeError
             THEN Raise(RawException("JSONDecodeError"))
             ELSE Return(data)

\* ------------------------------------------------------------------ state
VARIABLES
    op,         \* the call in progress or last made
    pc,         \* where the call is
    transport,  \* what the transport did in this call: [open, read, body]
    args,       \* the arguments of this call's raise_for_status, if any
    lines,      \* the lines the response iterator has handed out
    consumed,   \* how many lines the while loop has split off the buffer
    buffer,     \* the decoder's buffer
    emitted,    \* the chunks yielded so far
    outcome,    \* how the call ended
    pure,       \* the last call of a pure function: [fn, arg, result]
    client,     \* the SuperAgent instance: its four attributes
    calls,      \* the calls made on the shared instance, one per caller
    wire        \* the HTTP requests issued on the shared instance, in order

vars == <<op, pc, transport, args, lines, consumed, buffer, emitted,
          outcome>>

\* The state of the specifications of the pure functions and of the calls
\* on a shared instance.
xvars == <<pure, client, calls, wire>>

allvars == <<op, pc, transport, args, lines, consumed, buffer, emitted,
             outcome, pure, client, calls, wire>>

NoArgs == [status_code |-> 0, response_data |-> JNull]
NoTransport == [open |-> NoT, read |-> NoT, body |-> ""]

\* The callers that share one SuperAgent instance.
Calls == {1, 2}

\* A caller that has not called yet.
IdleCall ==
    [op |-> "none", pc |-> "idle", headers |-> <<>>, open |-> NoT,
     read |-> NoT, body |-> "", lines |-> <<>>, consumed |-> 0,
     buffer |-> <<>>, emitted |-> <<>>, outcome |-> Pending]

\* No pure function has been called.
NoPure == [fn |-> "none", arg |-> JNull, result |-> JNull]

\* No pure function has been called and nobody uses a shared instance.
XIdle ==
    /\ pure = NoPure
    /\ client = DefaultClient
    /\ calls = [c \in Calls |-> IdleCall]
    /\ wire = <<>>

Init ==
    /\ XIdle
    /\ op = "none"
    /\ pc = "idle"
    /\ transport = NoTransport
    /\ args = NoArgs
    /\ lines = <<>>
    /\ consumed = 0
    /\ buffer = <<>>
    /\ emitted = <<>>
    /\ outcome = Pending

\* A call starts when no call is running; a call other than a streaming
\* one has no lines, buffer or chunks.
StartCall(name) ==
    /\ pc = "idle"
    /\ op' = name
    /\ UNCHANGED <<lines, consumed, buffer, emitted>>
    /\ UNCHANGED xvars

\* The arguments raise_for_status gets when exception e is handled.
ArgsOf(e) ==
    IF e.kind = "HTTPError"
    THEN [status_code |-> e.code, response_data |-> error_response_data(e)]
    ELSE NoArgs

\* A direct call raise_for_status(status_code, response_data).
CallRaiseForStatus ==
    \E s \in StatusCodes, p \in Payloads :
        /\ StartCall("raise_for_status")
        /\ pc' = "done"
        /\ transport' = NoTransport
        /\ args' = [status_code |-> s, response_data |-> p]
        /\ outcome' = raise_for_status(s, p)

\* client._request(method, path, data): one HTTP round trip.
Request ==
    \E open \in {OkT} \cup OpenFailures,
       read \in {OkT} \cup ReadFailures,
       body \in SuccessBodies :
        /\ open.kind # "ok" => read = OkT /\ body = BNone
        /\ read.kind # "ok" => body = BNone
        /\ StartCall("request")
        /\ pc' = "done"
        /\ transport' = [open |-> open,
                         read |-> IF open.kind = "ok" THEN read ELSE NoT,
                         body |-> body]
        /\ args' = ArgsOf(open)
        /\ outcome' = request(open, read, body)

\* Faulty variant of CreateStream: create itself calls urlopen, so a
\* failure to open is raised by create.
CreateStream_opens_eagerly ==
    /\ StartCall("stream")
    /\ \E open \in {OkT} \cup OpenFailures :
        /\ transport' = [NoTransport EXCEPT !.open = open]
        /\ args' = ArgsOf(open)
        /\ IF open.kind = "ok"
           THEN pc' = "reading" /\ outcome' = Pending
           ELSE pc' = "done" /\ outcome' = stream_except(open)

\* create(stream=True): the generator is made, none of its code has run.
CreateStream ==
    /\ StartCall("stream")
    /\ pc' = "created"
    /\ transport' = NoTransport
    /\ args' = NoArgs
    /\ outcome' = Pending

\* First pull: the generator builds the request and calls urlopen.
StreamOpen ==
    /\ pc = "created"
    /\ \E open \in {OkT} \cup OpenFailures :
        /\ transport' = [transport EXCEPT !.open = open]
        /\ args' = ArgsOf(open)
        /\ IF open.kind = "ok"
           THEN pc' = "reading" /\ outcome' = outcome
           ELSE pc' = "done" /\ outcome' = stream_except(open)
    /\ UNCHANGED <<op, lines, consumed, buffer, emitted>>
    /\ UNCHANGED xvars

\* The server can still send: nothing unterminated has been handed out.
ServerOpen == IF lines = <<>> THEN TRUE ELSE Terminated(lines[Len(lines)])

\* for line in response: the iterator hands out the next line, which is
\* appended to the buffer.
ReadLine ==
    /\ pc = "reading"
    /\ ServerOpen
    /\ Len(lines) < MaxLines
    /\ \E l \in Lines :
        /\ lines' = Append(lines, l)
        /\ buffer' = buffer \o l
    /\ pc' = "splitting"
    /\ transport' = [transport EXCEPT !.read = OkT]
    /\ UNCHANGED <<op, args, consumed, emitted, outcome>>
    /\ UNCHANGED xvars

\* Faulty variant of ReadEOF: a stream that ends without [DONE] is an error.
ReadEOF_raises ==
    /\ pc = "reading"
    /\ pc' = "done"
    /\ transport' = [transport EXCEPT !.read = EofT]
    /\ outcome' = Raise(SuperAgentError("ConnectionError",
                                        JStr("Stream ended without [DONE]"),
                                        JNull, JNull))
    /\ UNCHANGED <<op, args, lines, consumed, buffer, emitted>>
    /\ UNCHANGED xvars

\* for line in response: the stream has ended; the loop and the generator
\* finish.
ReadEOF ==
    /\ pc = "reading"
    /\ pc' = "done"
    /\ transport' = [transport EXCEPT !.read = EofT]
    /\ outcome' = Return(JNull)
    /\ UNCHANGED <<op, args, lines, consumed, buffer, emitted>>
    /\ UNCHANGED xvars

\* for line in response: the read fails.
ReadFail ==
    /\ pc = "reading"
    /\ ServerOpen
    /\ \E e \in ReadFailures :
        /\ transport' = [transport EXCEPT !.read = e]
        /\ outcome' = stream_except(e)
    /\ pc' = "done"
    /\ UNCHANGED <<op, args, lines, consumed, buffer, emitted>>
    /\ UNCHANGED xvars

\* while "\n" in buffer: one pass of the loop body.
ProcessLine ==
    /\ pc = "splitting"
    /\ HasNewline(buffer)
    /\ LET sl == SplitLine(buffer)
           d == decode_line(sl.line)
       IN  /\ buffer' = sl.rest
           /\ consumed' = consumed + 1
           /\ CASE d.kind = "continue" ->
                     pc' = pc /\ emitted' = emitted /\ outcome' = outcome
                [] d.kind = "return" ->
                     pc' = "done" /\ emitted' = emitted
                     /\ outcome' = Return(JNull)
                [] d.kind = "yield" ->
                     pc' = "suspended" /\ emitted' = Append(emitted, d.chunk)
                     /\ outcome' = outcome
                [] d.kind = "raise" ->
                     pc' = "done" /\ emitted' = emitted
                     /\ outcome' = stream_except(TExc("AttributeError", 0, "", ""))
    /\ UNCHANGED <<op, transport, args, lines>>
    /\ UNCHANGED xvars

\* Faulty variant of LoopBack: text left without a newline is decoded as
\* a line of its own.
LoopBack_flushes ==
    /\ pc = "splitting"
    /\ ~HasNewline(buffer)
    /\ LET d == decode_line(buffer)
       IN  /\ pc' = "reading"
           /\ buffer' = <<>>
           /\ emitted' = IF buffer # <<>> /\ d.kind = "yield"
                         THEN Append(emitted, d.chunk) ELSE emitted
    /\ UNCHANGED <<op, transport, args, lines, consumed, outcome>>
    /\ UNCHANGED xvars

\* while "\n" in buffer: no complete line is left, back to the for loop.
LoopBack ==
    /\ pc = "splitting"
    /\ ~HasNewline(buffer)
    /\ pc' = "reading"
    /\ UNCHANGED <<op, transport, args, lines, consumed, buffer,
                   emitted, outcome>>
    /\ UNCHANGED xvars

\* The caller pulls the next chunk: the generator resumes after the yield.
Resume ==
    /\ pc = "suspended"
    /\ pc' = "splitting"
    /\ UNCHANGED <<op, transport, args, lines, consumed, buffer,
                   emitted, outcome>>
    /\ UNCHANGED xvars

\* VerifierClient._request(method, path): one round trip of the verifier
\* SDK, here for remove_provider, which sends DELETE to this path.
VerifierPath == "/api/v1/verifier/health/providers/p1"

VerifierRequest ==
    \E sent \in {OkT} \cup RequestsFailures,
       status \in VerifierStatuses,
       body \in VerifierBodies :
        /\ sent.kind # "ok" => status = 200 /\ body = BNone
        /\ StartCall("verifier_request")
        /\ pc' = "done"
        /\ transport' = [open |-> IF sent.kind = "ok"
                                  THEN TExc("ok", status, "", "")
                                  ELSE sent,
                         read |-> IF sent.kind = "ok" THEN OkT ELSE NoT,
                         body |-> body]
        /\ args' = NoArgs
        /\ outcome' = verifier_request(sent, status, body, VerifierPath)

\* The call is over and control is back with the caller: the call's
\* local state (request, response, buffer, generator) is gone and the
\* client is ready for the next call.
Finish ==
    /\ pc = "done"
    /\ pc' = "idle"
    /\ op' = "none"
    /\ transport' = NoTransport
    /\ args' = NoArgs
    /\ lines' = <<>>
    /\ consumed' = 0
    /\ buffer' = <<>>
    /\ emitted' = <<>>
    /\ outcome' = Pending
    /\ UNCHANGED xvars

Next ==
    \/ CallRaiseForStatus
    \/ Request
    \/ VerifierRequest
    \/ CreateStream
    \/ StreamOpen
    \/ ReadLine
    \/ ReadEOF
    \/ ReadFail
    \/ ProcessLine
    \/ LoopBack
    \/ Resume
    \/ Finish

Spec == Init /\ [][Next]_allvars

\* ------------------------------------------- calls of the pure functions
\* Exceptions of the taxonomy, with and without a status code.
StrErrors ==
    {SuperAgentError(k, JStr(m), sc, JNull) :
        k \in SDKKinds \ {"RateLimitError"}, m \in {"boom", ""},
        sc \in {JNull, JInt(0), JInt(404), JInt(500)}}
    \cup {RateLimitError(JStr("slow down"), sc, JNull, JInt(30)) :
             sc \in {JNull, JInt(0), JInt(429)}}

\* ChatMessage objects: every combination of unset, empty and set fields.
Messages ==
    {Obj("ChatMessage", [role |-> JStr(r), content |-> c, name |-> n,
                         tool_calls |-> tc]) :
        r \in {"user", "assistant"},
        c \in {JStr("hi"), JStr(""), JNull},
        n \in {JNull, JStr(""), JStr("bob")},
        tc \in {JNull, JList(<<>>), JList(<<JDict([id |-> JStr("t1")])>>)}}

\* Arguments of create: model, temperature and top_p at their defaults.
CreateArgs ==
    {[messages |-> ms, model |-> JStr("superagent-ensemble"),
      temperature |-> JFloat("0.7"), max_tokens |-> mt,
      top_p |-> JFloat("1.0"), stop |-> st, stream |-> sm,
      ensemble_config |-> ec, kwargs |-> kw] :
        ms \in {<<Obj("ChatMessage", [role |-> JStr("user"),
                                      content |-> JStr("hi"),
                                      name |-> JNull, tool_calls |-> JNull])>>,
                <<JDict([role |-> JStr("user"), content |-> JStr("hi")])>>},
        mt \in {JNull, JInt(0), JInt(16)},
        st \in {JNull, JList(<<>>), JList(<<JStr("END")>>)},
        sm \in BOOLEAN,
        ec \in {JNull, DefaultEnsembleConfig},
        kw \in {<<>>, "n" :> JInt(2)}}

\* The dict d without the keys outside S.
Restrict(d, S) == JDict([k \in S |-> d.v[k]])

\* Every payload that is d with a subset of its fields missing.
Partials(d) == {Restrict(d, S) : S \in SUBSET DOMAIN d.v}

\* The dict d with field k set to x.
WithField(d, k, x) == JDict(Put(d.v, k, x))

\* Full payloads of the eight record classes.
FullMessage ==
    JDict([role |-> JStr("assistant"), content |-> JStr("hi"),
           name |-> JStr("bob"),
           tool_calls |-> JList(<<JDict([id |-> JStr("t1")])>>)])
FullUsage ==
    JDict([prompt_tokens |-> JInt(3), completion_tokens |-> JInt(4),
           total_tokens |-> JInt(7)])
FullChoice ==
    JDict([index |-> JInt(1), message |-> FullMessage,
           finish_reason |-> JStr("stop")])
FullResponse ==
    JDict([id |-> JStr("c1"), object |-> JStr("chat.completion"),
           created |-> JInt(7), model |-> JStr("m1"),
           choices |-> JList(<<FullChoice>>), usage |-> FullUsage])
FullDelta == JDict([role |-> JStr("assistant"), content |-> JStr("hi")])
FullStreamChoice ==
    JDict([index |-> JInt(1), delta |-> FullDelta,
           finish_reason |-> JStr("stop")])
FullChunk ==
    JDict([id |-> JStr("c1"), object |-> JStr("chat.completion.chunk"),
           created |-> JInt(7), model |-> JStr("m1"),
           choices |-> JList(<<FullStreamChoice>>)])
FullModel ==
    JDict([id |-> JStr("m1"), object |-> JStr("model"), created |-> JInt(7),
           owned_by |-> JStr("helix")])

\* The partial payloads of each class: fields missing at the top level, and
\* fields missing in a nested record.
PartialChoices ==
    Partials(FullChoice)
    \cup {WithField(FullChoice, "message", m) : m \in Partials(FullMessage)}
PartialStreamChoices ==
    Partials(FullStreamChoice)
    \cup {WithField(FullStreamChoice, "delta", d) : d \in Partials(FullDelta)}
PartialPayloads(cls) ==
    CASE cls = "ChatMessage" -> Partials(FullMessage)
      [] cls = "Usage" -> Partials(FullUsage)
      [] cls = "ChatCompletionChoice" -> PartialChoices
      [] cls = "ChatCompletionResponse" ->
           Partials(FullResponse)
           \cup {WithField(r, "usage", u) :
                    r \in {FullResponse, EmptyDict}, u \in Partials(FullUsage)}
           \cup {WithField(FullResponse, "choices", JList(<<c>>)) :
                    c \in PartialChoices}
      [] cls = "StreamDelta" -> Partials(FullDelta)
      [] cls = "StreamChoice" -> PartialStreamChoices
      [] cls = "ChatCompletionChunk" ->
           Partials(FullChunk)
           \cup {WithField(FullChunk, "choices", JList(<<c>>)) :
                    c \in PartialStreamChoices}
      [] cls = "Model" -> Partials(FullModel)

Classes ==
    {"ChatMessage", "Usage", "ChatCompletionChoice", "ChatCompletionResponse",
     "StreamDelta", "StreamChoice", "ChatCompletionChunk", "Model"}

\* cls.from_dict(data)
from_dict(cls, data) ==
    CASE cls = "ChatMessage" -> ChatMessage_from_dict(data)
      [] cls = "Usage" -> Usage_from_dict(data)
      [] cls = "ChatCompletionChoice" -> ChatCompletionChoice_from_dict(data)
      [] cls = "ChatCompletionResponse" -> ChatCompletionResponse_from_dict(data)
      [] cls = "StreamDelta" -> StreamDelta_from_dict(data)
      [] cls = "StreamChoice" -> StreamChoice_from_dict(data)
      [] cls = "ChatCompletionChunk" -> ChatCompletionChunk_from_dict(data)
      [] cls = "Model" -> Model_from_dict(data)

\* The record of one call of a pure function.
Called(fn, arg, result) == [fn |-> fn, arg |-> arg, result |-> result]

\* str(e) for an exception e of the taxonomy.
CallStr ==
    /\ \E e \in StrErrors : pure' = Called("__str__", e, SuperAgentError_str(e))
    /\ UNCHANGED vars
    /\ UNCHANGED <<client, calls, wire>>

\* m.to_dict() for a ChatMessage m.
CallToDict ==
    /\ \E m \in Messages : pure' = Called("to_dict", m, ChatMessage_to_dict(m))
    /\ UNCHANGED vars
    /\ UNCHANGED <<client, calls, wire>>

\* create(...) up to the point where the payload is handed on.
CallCreate ==
    /\ \E a \in CreateArgs : pure' = Called("create", a, create_payload(a))
    /\ UNCHANGED vars
    /\ UNCHANGED <<client, calls, wire>>

\* cls.from_dict(data) for a partial payload.
CallFromDict ==
    /\ \E cls \in Classes : \E d \in PartialPayloads(cls) :
           pure' = Called(cls, d, from_dict(cls, d))
    /\ UNCHANGED vars
    /\ UNCHANGED <<client, calls, wire>>

NextPure ==
    \/ CallStr
    \/ CallToDict
    \/ CallCreate
    \/ CallFromDict

SpecPure == Init /\ [][NextPure]_allvars

\* ------------------------------------- calls on one shared SuperAgent
\* The instances the callers can share: with and without a key, the key
\* given or taken from the environment, with and without default headers.
Clients ==
    {SuperAgent_init(k, e, u, 60, h) :
        k \in {JNull, JStr("sk-1")},
        e \in {JNull, JStr("sk-env")},
        u \in {"http://localhost:8080", "http://localhost:8080/"},
        h \in {JNull, JDict(("Authorization" :> "Basic abc")
                            @@ ("X-Tenant" :> "t1"))}}

\* The public operations; "stream" is create(stream=True).
Operations == {"health", "models", "providers", "create", "stream"}

Method(o) == IF o \in {"create", "stream"} THEN "POST" ELSE "GET"

Path(o) ==
    CASE o = "health" -> "/health"
      [] o = "models" -> "/v1/models"
      [] o = "providers" -> "/v1/providers"
      [] OTHER -> "/v1/chat/completions"

\* What a non-streaming operation makes of the outcome r of its _request:
\* health returns it, providers and models read a key of it, create builds
\* a ChatCompletionResponse.  A result that is not a dict (None after a
\* status below 400, a JSON array) has no .get.
finish_operation(o, r) ==
    IF r.tag # "return" \/ o = "health" THEN r
    ELSE IF r.value.t # "dict" THEN Raise(RawException("AttributeError"))
    ELSE IF o = "providers"
    THEN Return(Get(r.value, "providers", JList(<<>>)))
    ELSE IF o = "models"
    THEN LET md == Get(r.value, "data", Get(r.value, "models", JList(<<>>)))
             ms == [i \in 1..Len(md.v) |-> Model_from_dict(md.v[i])]
         IN  IF \E i \in 1..Len(md.v) : ms[i] = AttributeError
             THEN Raise(RawException("AttributeError"))
             ELSE Return(JList(ms))
    ELSE LET resp == ChatCompletionResponse_from_dict(r.value)
         IN  IF resp = AttributeError
             THEN Raise(RawException("AttributeError"))
             ELSE Return(resp)

\* The headers of the request of operation o: _get_headers(), and for a
\* stream the Accept header set on that call's own dict.
build_headers(o, self) ==
    IF o = "stream"
    THEN Put(get_headers(self), "Accept", "text/event-stream")
    ELSE get_headers(self)

\* What urlopen, response.read() and the line iterator do in these calls.
CallOpenFailures ==
    {TExc("HTTPError", 401, Reason(401), BTok),
     TExc("HTTPError", 401, Reason(401), JArr),
     TExc("HTTPError", 500, Reason(500), BHtml),
     TExc("HTTPError", 304, Reason(304), BNone),
     TExc("URLError", 0, "Connection refused", "")}
CallReadFailures == {TExc("socket.timeout", 0, "timed out", "")}
CallBodies == {BNone, J1}
CallLines ==
    {<<DATA, SP, J1, NL>>, <<DATA, SP, DONE, NL>>, <<DATA, SP, JArr, NL>>}

InitCalls ==
    /\ op = "none"
    /\ pc = "idle"
    /\ transport = NoTransport
    /\ args = NoArgs
    /\ lines = <<>>
    /\ consumed = 0
    /\ buffer = <<>>
    /\ emitted = <<>>
    /\ outcome = Pending
    /\ pure = NoPure
    /\ client \in Clients
    /\ calls = [c \in Calls |-> IdleCall]
    /\ wire = <<>>

\* What a step of caller c leaves alone.
CallFrame == UNCHANGED vars /\ pure' = pure

\* Faulty variant of CallBuild: the Accept header of a stream is set on the
\* instance's default_headers instead of the call's own dict.
CallBuild_shares_headers(c) ==
    /\ calls[c].pc = "idle"
    /\ \E o \in Operations :
        /\ calls' = [calls EXCEPT ![c].op = o, ![c].pc = "built",
                                  ![c].headers = build_headers(o, client)]
        /\ client' = IF o = "stream"
                     THEN [client EXCEPT !.default_headers =
                               JDict(Put(@.v, "Accept", "text/event-stream"))]
                     ELSE client
    /\ wire' = wire
    /\ CallFrame

\* Caller c calls an operation, which builds the headers of its request
\* from the instance.
CallBuild(c) ==
    /\ calls[c].pc = "idle"
    /\ \E o \in Operations :
        /\ calls' = [calls EXCEPT ![c].op = o, ![c].pc = "built",
                                  ![c].headers = build_headers(o, client)]
        /\ client' = client
    /\ wire' = wire
    /\ CallFrame

\* The request of caller c as urlopen sends it.
Sent(c) ==
    [call |-> c, op |-> calls[c].op, method |-> Method(calls[c].op),
     url |-> client.base_url \o Path(calls[c].op),
     headers |-> calls[c].headers]

\* How the call of operation o ends when urlopen raises e.
open_failed(o, e) ==
    IF o = "stream" THEN stream_except(e)
    ELSE finish_operation(o, request_except(e))

\* Faulty variant of CallOpen: a failed request is sent a second time.
CallOpen_retries(c) ==
    /\ calls[c].pc = "built"
    /\ \E open \in {OkT} \cup CallOpenFailures :
        IF open.kind = "ok"
        THEN /\ wire' = Append(wire, Sent(c))
             /\ calls' = [calls EXCEPT
                    ![c].open = open,
                    ![c].pc = IF calls[c].op = "stream" THEN "reading"
                              ELSE "opened"]
        ELSE /\ wire' = Append(Append(wire, Sent(c)), Sent(c))
             /\ calls' = [calls EXCEPT
                    ![c].open = open, ![c].pc = "done",
                    ![c].outcome = open_failed(calls[c].op, open)]
    /\ client' = client
    /\ CallFrame

\* urlopen(request): the request of caller c goes out, once; a failure
\* ends the call.
CallOpen(c) ==
    /\ calls[c].pc = "built"
    /\ \E open \in {OkT} \cup CallOpenFailures :
        IF open.kind = "ok"
        THEN /\ wire' = Append(wire, Sent(c))
             /\ calls' = [calls EXCEPT
                    ![c].open = open,
                    ![c].pc = IF calls[c].op = "stream" THEN "reading"
                              ELSE "opened"]
        ELSE /\ wire' = Append(wire, Sent(c))
             /\ calls' = [calls EXCEPT
                    ![c].open = open, ![c].pc = "done",
                    ![c].outcome = open_failed(calls[c].op, open)]
    /\ client' = client
    /\ CallFrame

\* _request of caller c reads and decodes the body; the operation makes its
\* result of it.
CallRead(c) ==
    /\ calls[c].pc = "opened"
    /\ \E read \in {OkT} \cup CallReadFailures, body \in CallBodies :
        /\ read.kind # "ok" => body = BNone
        /\ calls' = [calls EXCEPT
               ![c].read = read, ![c].body = body, ![c].pc = "done",
               ![c].outcome = finish_operation(calls[c].op,
                                               request(OkT, read, body))]
    /\ UNCHANGED <<client, wire>>
    /\ CallFrame

\* Faulty variant of CallReadLine: the line goes into the buffer of every
\* stream that is open.
CallReadLine_shared_buffer(c) ==
    /\ calls[c].pc = "reading"
    /\ Len(calls[c].lines) < MaxCallLines
    /\ \E l \in CallLines :
        calls' = [d \in Calls |->
                     IF d = c
                     THEN [calls[d] EXCEPT !.lines = Append(@, l),
                                           !.buffer = @ \o l,
                                           !.read = OkT, !.pc = "splitting"]
                     ELSE IF calls[d].pc \in {"reading", "splitting", "suspended"}
                     THEN [calls[d] EXCEPT !.buffer = @ \o l]
                     ELSE calls[d]]
    /\ UNCHANGED <<client, wire>>
    /\ CallFrame

\* for line in response, in the stream of caller c: the line is appended
\* to that call's buffer.
CallReadLine(c) ==
    /\ calls[c].pc = "reading"
    /\ Len(calls[c].lines) < MaxCallLines
    /\ \E l \in CallLines :
        calls' = [d \in Calls |->
                     IF d = c
                     THEN [calls[d] EXCEPT !.lines = Append(@, l),
                                           !.buffer = @ \o l,
                                           !.read = OkT, !.pc = "splitting"]
                     ELSE calls[d]]
    /\ UNCHANGED <<client, wire>>
    /\ CallFrame

\* The stream of caller c ends.
CallReadEOF(c) ==
    /\ calls[c].pc = "reading"
    /\ calls' = [calls EXCEPT ![c].read = EofT, ![c].pc = "done",
                              ![c].outcome = Return(JNull)]
    /\ UNCHANGED <<client, wire>>
    /\ CallFrame

\* Reading the next line of the stream of caller c fails.
CallReadFail(c) ==
    /\ calls[c].pc = "reading"
    /\ \E e \in CallReadFailures :
        calls' = [calls EXCEPT ![c].read = e, ![c].pc = "done",
                                 ![c].outcome = stream_except(e)]
    /\ UNCHANGED <<client, wire>>
    /\ CallFrame

\* One pass of the while loop in the stream of caller c.
CallProcessLine(c) ==
    /\ calls[c].pc = "splitting"
    /\ HasNewline(calls[c].buffer)
    /\ LET sl == SplitLine(calls[c].buffer)
           d == decode_line(sl.line)
           me == [calls[c] EXCEPT !.buffer = sl.rest, !.consumed = @ + 1]
       IN  calls' = [calls EXCEPT ![c] =
               CASE d.kind = "continue" -> me
                 [] d.kind = "return" ->
                      [me EXCEPT !.pc = "done", !.outcome = Return(JNull)]
                 [] d.kind = "yield" ->
                      [me EXCEPT !.pc = "suspended",
                                 !.emitted = Append(@, d.chunk)]
                 [] d.kind = "raise" ->
                      [me EXCEPT !.pc = "done",
                                 !.outcome = stream_except(
                                     TExc("AttributeError", 0, "", ""))]]
    /\ UNCHANGED <<client, wire>>
    /\ CallFrame

\* No complete line is left in the buffer of caller c.
CallLoopBack(c) ==
    /\ calls[c].pc = "splitting"
    /\ ~HasNewline(calls[c].buffer)
    /\ calls' = [calls EXCEPT ![c].pc = "reading"]
    /\ UNCHANGED <<client, wire>>
    /\ CallFrame

\* Caller c pulls the next chunk of its stream.
CallResume(c) ==
    /\ calls[c].pc = "suspended"
    /\ calls' = [calls EXCEPT ![c].pc = "splitting"]
    /\ UNCHANGED <<client, wire>>
    /\ CallFrame

NextCalls ==
    \/ \E c \in Calls : CallBuild(c)
    \/ \E c \in Calls : CallOpen(c)
    \/ \E c \in Calls : CallRead(c)
    \/ \E c \in Calls : CallReadLine(c)
    \/ \E c \in Calls : CallReadEOF(c)
    \/ \E c \in Calls : CallReadFail(c)
    \/ \E c \in Calls : CallProcessLine(c)
    \/ \E c \in Calls : CallLoopBack(c)
    \/ \E c \in Calls : CallResume(c)

SpecCalls == InitCalls /\ [][NextCalls]_allvars

\* ----------------------------------------------------------------- claims
\* The text of a line the iterator handed out, without its newline.
LineText(l) == IF Terminated(l) THEN SubSeq(l, 1, Len(l) - 1) ELSE l

\* The line is exactly `data: [DONE]`.
IsDoneLine(l) == LineText(l) = <<DATA, SP, DONE>>

\* The line starts with the literal `data: `.
HasDataPrefix(l) ==
    Len(LineText(l)) >= 2 /\ LineText(l)[1] = DATA /\ LineText(l)[2] = SP

\* The text after the literal `data: `.
FrameText(l) == SubSeq(LineText(l), 3, Len(LineText(l)))

\* A `data: ` line, not [DONE], whose payload fails to parse as JSON.
IsMalformedFrame(l) ==
    HasDataPrefix(l) /\ ~IsDoneLine(l) /\ json_loads(FrameText(l)) = JSONDecodeError

\* A `data: ` line whose payload is a JSON object that decodes to a chunk.
IsValidFrame(l) ==
    /\ HasDataPrefix(l)
    /\ json_loads(FrameText(l)) # JSONDecodeError
    /\ ChatCompletionChunk_from_dict(json_loads(FrameText(l))) # AttributeError

\* The lines the while loop has taken off the buffer so far.
ConsumedLines == SubSeq(lines, 1, consumed)

\* A line `data: [DONE]` has been processed in the current streaming call.
DoneProcessed ==
    op = "stream" /\ \E i \in 1..consumed : IsDoneLine(lines[i])

\* C1: once a line `data: [DONE]` has been processed the decoder has
\* terminated (the generator has returned), and from then on it emits no
\* chunk and reads no further line.
C1_DoneTerminates ==
    [][ /\ DoneProcessed' => pc' = "done" /\ outcome' = Return(JNull)
        /\ (DoneProcessed /\ op' = "stream") =>
               UNCHANGED <<emitted, lines, consumed, buffer, pc, outcome>> ]_vars

\* C1 witness: [DONE] was processed after a chunk had been emitted.
C1_Witness ==
    DoneProcessed /\ Len(emitted) = 1 /\ consumed = 2 /\ pc = "done"

RECURSIVE ChunksOfFrames(_)
\* The chunks of the valid frames among the given lines, in order.
ChunksOfFrames(ls) ==
    IF ls = <<>> THEN <<>>
    ELSE IF IsValidFrame(Head(ls))
    THEN <<ChatCompletionChunk_from_dict(json_loads(FrameText(Head(ls))))>>
         \o ChunksOfFrames(Tail(ls))
    ELSE ChunksOfFrames(Tail(ls))

\* Every line processed so far is a valid frame or a malformed frame.
OnlyFrames ==
    op = "stream" /\ \A i \in 1..consumed :
        IsValidFrame(lines[i]) \/ IsMalformedFrame(lines[i])

\* C2: processing a `data: ` line whose payload is not JSON emits nothing,
\* raises nothing and leaves the decoder in its loop; in a stream made of
\* valid and malformed frames the chunks emitted are exactly those of the
\* valid frames.
C2_MalformedDropped ==
    [][ /\ (op = "stream" /\ consumed' = consumed + 1
              /\ IsMalformedFrame(lines[consumed'])) =>
               (emitted' = emitted /\ outcome' = Pending /\ pc' = "splitting")
        /\ OnlyFrames' => emitted' = ChunksOfFrames(ConsumedLines') ]_vars

\* C2 witness: a malformed frame between two valid frames, two chunks out.
C2_Witness ==
    /\ op = "stream" /\ consumed = 3 /\ Len(emitted) = 2
    /\ IsValidFrame(lines[1]) /\ IsMalformedFrame(lines[2])
    /\ IsValidFrame(lines[3])
    /\ outcome = Pending

RECURSIVE ClaimedChunks(_)
\* The emission C3 states: the decoded payload of every line that starts
\* with the literal `data: ` and carries parseable JSON, up to the first
\* `data: [DONE]`.
ClaimedChunks(ls) ==
    IF ls = <<>> THEN <<>>
    ELSE IF IsDoneLine(Head(ls)) THEN <<>>
    ELSE IF HasDataPrefix(Head(ls))
            /\ json_loads(FrameText(Head(ls))) # JSONDecodeError
    THEN <<ChatCompletionChunk_from_dict(json_loads(FrameText(Head(ls))))>>
         \o ClaimedChunks(Tail(ls))
    ELSE ClaimedChunks(Tail(ls))

\* C3: the chunks emitted are, in order and one per frame, the decoded
\* payloads of the complete lines that start with the literal `data: ` and
\* carry parseable JSON, up to the first `data: [DONE]`; other lines emit
\* nothing.
C3_EmitsExactlyFrames ==
    op = "stream" => emitted = ClaimedChunks(ConsumedLines)

\* C4: when the stream ends without [DONE], the generator finishes
\* normally: no error is raised and the chunks emitted stay as they are.
C4_EofEndsNormally ==
    [][ (op = "stream" /\ transport.read # EofT /\ transport'.read = EofT) =>
            (pc' = "done" /\ outcome' = Return(JNull) /\ emitted' = emitted) ]_vars

\* C4 witness: the stream ended after one chunk, without [DONE].
C4_Witness ==
    /\ op = "stream" /\ transport.read = EofT /\ ~DoneProcessed
    /\ Len(emitted) = 1 /\ outcome = Return(JNull)

\* C5: when opening the stream fails (no connection, or a status outside
\* 2xx) the streaming call raises an error of the taxonomy, before any
\* chunk; it never ends without an error.
C5_OpenFailureRaises ==
    (op = "stream" /\ transport.open.kind \in {"HTTPError", "URLError"}) =>
        (outcome.tag = "raise" /\ outcome.exc.kind \in SDKKinds
         /\ emitted = <<>>)

\* C6: when the transport fails after a chunk has been emitted, the next
\* pull raises an error of the taxonomy, not the transport's exception.
C6_MidStreamFailureClassified ==
    (op = "stream" /\ emitted # <<>> /\ transport.read \in ReadFailures) =>
        (outcome.tag = "raise" /\ outcome.exc.kind \in SDKKinds)

\* The kind C7 states for a status of 400 or more.
ClaimedKind(status) ==
    IF status = 401 THEN "AuthenticationError"
    ELSE IF status = 429 THEN "RateLimitError"
    ELSE IF status <= 499 THEN "ValidationError"
    ELSE "APIError"

\* raise_for_status has been called with a status of 400 or more and a
\* payload that is a mapping.
ClassifiedCall == args.status_code >= 400 /\ args.response_data.t = "dict"

ErrorField == Get(args.response_data, "error", NoAttr)

\* The `error` field is a nested mapping that has a `message`.
HasNestedMessage == ErrorField.t = "dict" /\ "message" \in DOMAIN ErrorField.v

\* C8 as stated: nested error.message when present; else the string form
\* of a scalar `error` field whatever its value; else "Unknown error".
C8_MessageAsStated ==
    ClassifiedCall =>
        outcome.exc.message =
            IF HasNestedMessage THEN ErrorField.v["message"]
            ELSE IF ErrorField.t \in {"str", "int", "bool"}
            THEN JStr(PyStr(ErrorField))
            ELSE JStr("Unknown error")

\* C8 amended: nested error.message when present; else the string form of
\* an `error` field that is not a mapping and is truthy; else (no `error`
\* field, a mapping without `message`, or a falsy value such as null,
\* false, 0 or the empty string) "Unknown error".
C8_MessageTruthy ==
    ClassifiedCall =>
        outcome.exc.message =
            IF HasNestedMessage THEN ErrorField.v["message"]
            ELSE IF ErrorField.t \in {"str", "int", "bool", "null", "list"}
                    /\ Truthy(ErrorField)
            THEN JStr(PyStr(ErrorField))
            ELSE JStr("Unknown error")

\* C8 witness: a payload whose `error` field is the scalar 0 has given the
\* message "Unknown error".
C8_Witness ==
    /\ ClassifiedCall /\ ErrorField = JInt(0)
    /\ outcome.exc.message = JStr("Unknown error")

\* C9: a response with a status outside 2xx makes _request raise an error
\* of the taxonomy; _request never returns for it.
C9_RequestNon2xxRaises ==
    (op = "request" /\ transport.open.kind = "HTTPError") =>
        (outcome.tag = "raise" /\ outcome.exc.kind \in SDKKinds)

\* The timeout elapsed in the current call, while connecting, while
\* waiting for the response or while reading its body.
TimedOut ==
    /\ op \in {"request", "stream"}
    /\ \/ (transport.open.kind \in {"URLError", "socket.timeout"}
           /\ IsTimeout(transport.open))
       \/ (transport.read.kind = "socket.timeout" /\ IsTimeout(transport.read))

\* C10: when the timeout elapses during a call, the call raises the SDK's
\* ConnectionError or TimeoutError, never the transport's own exception.
C10_TimeoutClassified ==
    TimedOut =>
        (outcome.tag = "raise"
         /\ outcome.exc.kind \in {"ConnectionError", "TimeoutError"})

\* _request got a response: urlopen returned and the body was read.
GotResponse ==
    op = "request" /\ transport.open.kind = "ok" /\ transport.read.kind = "ok"

\* C11: for a 2xx response with an empty body _request returns an empty
\* mapping and raises nothing; a non-empty body is JSON-decoded, and the
\* result of the decoding is what the call returns.
C11_EmptyBodyGivesEmptyMapping ==
    GotResponse =>
        IF transport.body = ""
        THEN outcome = Return(EmptyDict)
        ELSE IF json_loads_text(transport.body) = JSONDecodeError
        THEN outcome.tag = "raise"
        ELSE outcome = Return(json_loads_text(transport.body))

\* C11 witness: a call whose 2xx response had an empty body has returned {}.
C11_Witness ==
    GotResponse /\ transport.body = "" /\ outcome = Return(EmptyDict)

\* The verifier's _request got a response with a status below 400 and an
\* empty body.
VerifierEmptySuccess ==
    /\ op = "verifier_request"
    /\ transport.open.kind = "ok"
    /\ transport.open.code < 400
    /\ transport.body = ""

\* C12: VerifierClient._request returns an empty mapping, and raises
\* nothing, for every response with a status below 400 and an empty body.
C12_VerifierEmptyBodyGivesEmptyMapping ==
    VerifierEmptySuccess => outcome = Return(EmptyDict)

\* raise_for_status has been called with status 429 and a mapping.
RateLimited == ClassifiedCall /\ args.status_code = 429

\* C17: the RateLimitError raised for 429 has retry_after equal to the
\* payload's top-level retry_after field, None when the payload has no such
\* field; an error of any other kind carries no retry_after.
C17_RetryAfterTopLevel ==
    ClassifiedCall =>
        /\ outcome.tag = "raise"
        /\ IF args.status_code = 429
           THEN outcome.exc.retry_after =
                    (IF "retry_after" \in DOMAIN args.response_data.v
                     THEN args.response_data.v["retry_after"]
                     ELSE JNull)
           ELSE outcome.exc.retry_after = NoAttr

\* C17 witness: a 429 whose payload has retry_after 30 at its top level has
\* raised a RateLimitError with retry_after 30.
C17_Witness ==
    /\ RateLimited
    /\ "retry_after" \in DOMAIN args.response_data.v
    /\ args.response_data.v["retry_after"] = JInt(30)
    /\ outcome.exc.kind = "RateLimitError"
    /\ outcome.exc.retry_after = JInt(30)

\* C18: the textual form of an error is `[<status_code>] <message>` when
\* the error has a status code, whatever integer it is, and exactly the
\* message when it has none.
C18_StrShowsStatus ==
    pure.fn = "__str__" =>
        pure.result =
            (IF pure.arg.status_code # JNull
             THEN JStr("[" \o ToString(pure.arg.status_code.v) \o "] "
                       \o pure.arg.message.v)
             ELSE pure.arg.message)

\* The documented default of every field of a record class: the defaults
\* of the dataclass fields and of the from_dict constructors.
DefaultOf(cls) ==
    CASE cls = "ChatMessage" ->
           [role |-> JStr(""), content |-> JStr(""), name |-> JNull,
            tool_calls |-> JNull]
      [] cls = "Usage" ->
           [prompt_tokens |-> JInt(0), completion_tokens |-> JInt(0),
            total_tokens |-> JInt(0)]
      [] cls = "ChatCompletionChoice" ->
           [index |-> JInt(0),
            message |-> Obj("ChatMessage",
                            [role |-> JStr(""), content |-> JStr(""),
                             name |-> JNull, tool_calls |-> JNull]),
            finish_reason |-> JNull]
      [] cls = "ChatCompletionResponse" ->
           [id |-> JStr(""), object |-> JStr("chat.completion"),
            created |-> JInt(0), model |-> JStr(""), choices |-> <<>>,
            usage |-> JNull]
      [] cls = "StreamDelta" -> [role |-> JNull, content |-> JNull]
      [] cls = "StreamChoice" ->
           [index |-> JInt(0),
            delta |-> Obj("StreamDelta", [role |-> JNull, content |-> JNull]),
            finish_reason |-> JNull]
      [] cls = "ChatCompletionChunk" ->
           [id |-> JStr(""), object |-> JStr("chat.completion.chunk"),
            created |-> JInt(0), model |-> JStr(""), choices |-> <<>>]
      [] cls = "Model" ->
           [id |-> JStr(""), object |-> JStr("model"), created |-> JInt(0),
            owned_by |-> JStr("")]

\* The class of the record held by field k of class cls, "" when the
\* field holds a plain value.
NestedRecord(cls, k) ==
    CASE cls = "ChatCompletionChoice" /\ k = "message" -> "ChatMessage"
      [] cls = "ChatCompletionResponse" /\ k = "usage" -> "Usage"
      [] cls = "StreamChoice" /\ k = "delta" -> "StreamDelta"
      [] OTHER -> ""

\* The class of the records in the list held by field k of class cls.
NestedList(cls, k) ==
    CASE cls = "ChatCompletionResponse" /\ k = "choices" -> "ChatCompletionChoice"
      [] cls = "ChatCompletionChunk" /\ k = "choices" -> "StreamChoice"
      [] OTHER -> ""

\* Field k of the record built from the partial payload d is as claimed:
\* the default when d lacks k, else d's value, converted by the nested
\* class's constructor where the field holds records.
FieldAsClaimed(cls, d, r, k) ==
    IF k \notin DOMAIN d.v THEN r.v[k] = DefaultOf(cls)[k]
    ELSE IF NestedRecord(cls, k) # ""
    THEN r.v[k] = from_dict(NestedRecord(cls, k), d.v[k])
    ELSE IF NestedList(cls, k) # ""
    THEN r.v[k] = [i \in 1..Len(d.v[k].v) |->
                      from_dict(NestedList(cls, k), d.v[k].v[i])]
    ELSE r.v[k] = d.v[k]

\* C19: every from_dict constructor succeeds on a payload from which any
\* subset of fields is missing, at every nesting level, and gives each
\* missing field its documented default.
C19_FromDictFillsDefaults ==
    pure.fn \in Classes =>
        /\ pure.result.t = pure.fn
        /\ DOMAIN pure.result.v = DOMAIN DefaultOf(pure.fn)
        /\ \A k \in DOMAIN pure.result.v :
              FieldAsClaimed(pure.fn, pure.arg, pure.result, k)

\* The keys of the dict a pure function returned.
ResultKeys == DOMAIN pure.result.v

\* Key k is in the returned dict exactly when present holds, and then with
\* value x.
KeyIff(k, present, x) ==
    /\ (k \in ResultKeys) <=> present
    /\ present => pure.result.v[k] = x

\* C20 as stated: to_dict has role and content, has name and tool_calls
\* exactly when they are set (not None), and has no null value; create's
\* payload has max_tokens, stop and ensemble_config only when given.
C20_OmitsExactlyUnset ==
    /\ pure.fn = "to_dict" =>
          /\ {"role", "content"} \subseteq ResultKeys
          /\ ("name" \in ResultKeys) <=> (pure.arg.v.name # JNull)
          /\ ("tool_calls" \in ResultKeys) <=> (pure.arg.v.tool_calls # JNull)
          /\ \A k \in ResultKeys : pure.result.v[k] # JNull
    /\ pure.fn = "create" =>
          /\ ("max_tokens" \in ResultKeys) <=> (pure.arg.max_tokens # JNull)
          /\ ("stop" \in ResultKeys) <=> (pure.arg.stop # JNull)
          /\ ("ensemble_config" \in ResultKeys)
                <=> (pure.arg.ensemble_config # JNull)

\* C20 amended: to_dict has role and content with the message's values,
\* whatever they are; it has name exactly when the name is a non-empty
\* string and tool_calls exactly when they are a non-empty list, so neither
\* is ever null or empty in the result; without name and tool_calls the
\* result is exactly {role, content}.  create's payload has max_tokens,
\* stop and ensemble_config exactly when the argument is not None.
C20_OmitsFalsy ==
    /\ pure.fn = "to_dict" =>
          /\ ResultKeys \subseteq {"role", "content", "name", "tool_calls"}
          /\ KeyIff("role", TRUE, pure.arg.v.role)
          /\ KeyIff("content", TRUE, pure.arg.v.content)
          /\ KeyIff("name", pure.arg.v.name \notin {JNull, JStr("")},
                    pure.arg.v.name)
          /\ KeyIff("tool_calls",
                    pure.arg.v.tool_calls \notin {JNull, JList(<<>>)},
                    pure.arg.v.tool_calls)
          /\ (pure.arg.v.name = JNull /\ pure.arg.v.tool_calls = JNull)
                => ResultKeys = {"role", "content"}
    /\ pure.fn = "create" =>
          /\ KeyIff("max_tokens", pure.arg.max_tokens # JNull,
                    pure.arg.max_tokens)
          /\ KeyIff("stop", pure.arg.stop # JNull, pure.arg.stop)
          /\ KeyIff("ensemble_config", pure.arg.ensemble_config # JNull,
                    JDict(pure.arg.ensemble_config.v))

\* C20 witness: a message whose name is the empty string and whose content
\* is None has been serialized: name is left out, content is null.
C20_Witness ==
    /\ pure.fn = "to_dict"
    /\ pure.arg.v.name = JStr("")
    /\ pure.arg.v.content = JNull
    /\ "name" \notin ResultKeys
    /\ pure.result.v["content"] = JNull

\* The text of the lines ls, one after the other.
RECURSIVE Flatten(_)
Flatten(ls) == IF ls = <<>> THEN <<>> ELSE Head(ls) \o Flatten(Tail(ls))

\* A stream run alone over the text buf: the chunks it emits after those
\* in em, and how it ends (Pending: it wants more text).
RECURSIVE AloneStream(_, _)
AloneStream(buf, em) ==
    IF ~HasNewline(buf) THEN [emitted |-> em, outcome |-> Pending]
    ELSE LET sl == SplitLine(buf)
             d == decode_line(sl.line)
         IN  CASE d.kind = "continue" -> AloneStream(sl.rest, em)
               [] d.kind = "yield" -> AloneStream(sl.rest, Append(em, d.chunk))
               [] d.kind = "return" ->
                    [emitted |-> em, outcome |-> Return(JNull)]
               [] d.kind = "raise" ->
                    [emitted |-> em,
                     outcome |-> stream_except(TExc("AttributeError", 0, "", ""))]

\* The outcome the finished call me has when it is run alone on the same
\* instance with the same answers of the server.
AloneOutcome(me) ==
    IF me.op # "stream"
    THEN finish_operation(me.op, request(me.open, me.read, me.body))
    ELSE IF me.open.kind # "ok" THEN stream_except(me.open)
    ELSE LET a == AloneStream(Flatten(me.lines), <<>>)
         IN  IF a.outcome # Pending THEN a.outcome
             ELSE IF me.read = EofT THEN Return(JNull)
             ELSE stream_except(me.read)

\* Sequence p is a prefix of sequence q.
IsPrefix(p, q) == Len(p) <= Len(q) /\ p = SubSeq(q, 1, Len(p))

\* C13: when two calls on one shared instance are interleaved, each call's
\* request headers, emitted chunks and outcome are those it has when run
\* alone; no call touches another call's buffer or headers.
C13_CallsDoNotInterfere ==
    \A c \in Calls :
        LET me == calls[c]
            alone == AloneStream(Flatten(me.lines), <<>>)
        IN  /\ me.pc # "idle" => me.headers = build_headers(me.op, client)
            /\ me.op = "stream" =>
                  IF me.pc \in {"splitting", "suspended"}
                  THEN IsPrefix(me.emitted, alone.emitted)
                  ELSE me.emitted = alone.emitted
            /\ me.pc = "done" => me.outcome = AloneOutcome(me)

\* C13 witness: two streams are open at once on the shared instance: one
\* caller holds its first chunk while the other, having read a different
\* line, has ended with an error and no chunk.
C13_Witness ==
    /\ calls[1].op = "stream" /\ calls[2].op = "stream"
    /\ calls[1].pc = "suspended" /\ Len(calls[1].emitted) = 1
    /\ calls[2].pc = "done" /\ Len(calls[2].lines) = 1
    /\ calls[2].emitted = <<>> /\ calls[2].outcome.tag = "raise"
    /\ Len(wire) = 2 /\ wire[1].call = 2

\* C14: no operation step changes the instance's api_key, base_url,
\* timeout or default_headers, and no request of a non-streaming operation
\* carries the Accept header of the streams.
C14_ClientUnchanged ==
    [][/\ client' = client
       /\ \A i \in 1..Len(wire') :
             wire'[i].op # "stream" => "Accept" \notin DOMAIN wire'[i].headers
      ]_allvars

\* C14 witness: a stream's request went out with Accept: text/event-stream
\* and failed, and a later health request on the same instance went out
\* without it.
C14_Witness ==
    /\ Len(wire) = 2
    /\ wire[1].op = "stream"
    /\ "Accept" \in DOMAIN wire[1].headers
    /\ wire[1].headers["Accept"] = "text/event-stream"
    /\ calls[wire[1].call].outcome.tag = "raise"
    /\ wire[2].op = "health"
    /\ "Accept" \notin DOMAIN wire[2].headers
    /\ "Accept" \notin DOMAIN client.default_headers.v

\* The number of requests caller c has issued.
Requests(c) == Cardinality({i \in 1..Len(wire) : wire[i].call = c})

\* The request of call me failed: an HTTP error status (4xx, 5xx) came
\* back or the connection could not be made.
RequestFailed(me) ==
    \/ me.open.kind = "URLError"
    \/ me.open.kind = "HTTPError" /\ me.open.code >= 400

\* C15: every operation issues at most one HTTP request per call; when it
\* fails the call ends by raising, the request having gone out once.
C15_OneRequestNoRetry ==
    \A c \in Calls :
        /\ Requests(c) <= 1
        /\ RequestFailed(calls[c]) =>
              /\ calls[c].pc = "done"
              /\ calls[c].outcome.tag = "raise"
              /\ Requests(c) = 1

\* C15 witness: both callers' requests failed, one with status 500 and
\* one on connecting; each raised after a single request.
C15_Witness ==
    /\ calls[1].open.kind = "HTTPError" /\ calls[1].open.code = 500
    /\ calls[1].outcome.tag = "raise"
    /\ calls[1].outcome.exc.kind = "APIError"
    /\ calls[2].open.kind = "URLError"
    /\ calls[2].outcome.tag = "raise"
    /\ calls[2].outcome.exc.kind = "ConnectionError"
    /\ Requests(1) = 1 /\ Requests(2) = 1

\* The Authorization header of every request sent is `Bearer <key>` when
\* the instance has a key; without a key it is what default_headers gives,
\* if anything.
AuthorizationAsConfigured ==
    \A i \in 1..Len(wire) :
        LET h == wire[i].headers
        IN  IF Truthy(client.api_key)
            THEN /\ "Authorization" \in DOMAIN h
                 /\ h["Authorization"] = "Bearer " \o client.api_key.v
            ELSE IF "Authorization" \in DOMAIN client.default_headers.v
            THEN /\ "Authorization" \in DOMAIN h
                 /\ h["Authorization"] = client.default_headers.v["Authorization"]
            ELSE "Authorization" \notin DOMAIN h

\* C16: with a key every request carries `Authorization: Bearer <key>`,
\* also over an Authorization of default_headers; without a key the SDK
\* adds none, and a call answered 401 raises AuthenticationError.
C16_BearerOrAuthenticationError ==
    /\ AuthorizationAsConfigured
    /\ \A c \in Calls :
          (calls[c].open.kind = "HTTPError" /\ calls[c].open.code = 401) =>
              /\ calls[c].outcome.tag = "raise"
              /\ calls[c].outcome.exc.kind = "AuthenticationError"

\* A stream whose connection opened and whose reads all succeeded.
StreamTransportFine ==
    /\ op = "stream"
    /\ transport.open.kind = "ok"
    /\ transport.read.kind \in {"none", "ok", "eof"}

\* C21: no content of a single `data: ` frame aborts the stream: as long as
\* the connection opened and no read failed, the stream does not raise.
C21_NoFrameAbortsStream ==
    StreamTransportFine => outcome.tag # "raise"

\* The last line handed out was not terminated by a newline: the server
\* closed the connection after it.
LastLineUnterminated ==
    op = "stream" /\ lines # <<>> /\ ~Terminated(lines[Len(lines)])

\* C22: text left in the buffer without a newline is never processed: the
\* unterminated final line is not split off, gives no chunk and no error,
\* and stays in the buffer when the stream ends.
C22_TrailingTextIgnored ==
    LastLineUnterminated =>
        /\ consumed <= Len(lines) - 1
        /\ Len(emitted) <= consumed
        /\ buffer = lines[Len(lines)]
        /\ outcome.tag # "raise"
        /\ pc = "done" => outcome = Return(JNull)

\* C22 witness: the only line of a stream was `data: {...}` without a
\* newline, the connection closed, and the stream ended normally with no
\* chunk.
C22_Witness ==
    /\ LastLineUnterminated
    /\ lines = << <<DATA, SP, J1>> >>
    /\ pc = "done"
    /\ transport.read = EofT
    /\ emitted = <<>>
    /\ outcome = Return(JNull)

\* C23: create(stream=True) issues no request and raises nothing: after it
\* the generator has not run; urlopen is called, and its failure raised,
\* only by a step of the generator, at the first pull.
C23_StreamIsLazy ==
    [][/\ (pc = "idle" /\ op' = "stream") =>
            (pc' = "created" /\ transport' = NoTransport
             /\ outcome' = Pending)
       /\ (op' = "stream" /\ transport.open = NoT /\ transport'.open # NoT) =>
            pc = "created"
      ]_allvars

\* C23 witness: a stream whose connection could not be made has raised
\* ConnectionError, at the first pull.
C23_Witness ==
    /\ op = "stream"
    /\ pc = "done"
    /\ transport.open.kind = "URLError"
    /\ outcome.tag = "raise"
    /\ outcome.exc.kind = "ConnectionError"

\* The exception kinds of the verifier SDK.
VerifierKinds ==
    {"AuthenticationError", "NotFoundError", "ValidationError", "APIError"}

\* The kind claimed for a status of 400 or more.
VerifierClaimedKind(status) ==
    CASE status = 401 -> "AuthenticationError"
      [] status = 404 -> "NotFoundError"
      [] status = 400 -> "ValidationError"
      [] OTHER -> "APIError"

\* C24: for every response with status >= 400, whatever its body, the
\* verifier's _request raises the SDK kind of that status (APIError with
\* the status code for the others); a timeout raises APIError with 408,
\* another transport failure APIError without a status code.
C24_VerifierErrorsClassified ==
    op = "verifier_request" =>
        /\ (transport.open.kind = "ok" /\ transport.open.code >= 400) =>
              /\ outcome.tag = "raise"
              /\ outcome.exc.kind = VerifierClaimedKind(transport.open.code)
              /\ outcome.exc.kind = "APIError" =>
                    outcome.exc.status_code = JInt(transport.open.code)
        /\ transport.open.kind = "requests.Timeout" =>
              /\ outcome.tag = "raise"
              /\ outcome.exc.kind = "APIError"
              /\ outcome.exc.status_code = JInt(408)
        /\ transport.open.kind = "requests.ConnectionError" =>
              /\ outcome.tag = "raise"
              /\ outcome.exc.kind = "APIError"
              /\ outcome.exc.status_code = JNull
====
